---------------------------- MODULE Spec2Model ----------------------------
(***************************************************************************)
(* The catalog-derivation engine of src/layman.py: the per-record          *)
(* derivations of analyze_exoplanet and the batch loop of                  *)
(* process_exoplanet_data.                                                 *)
(*                                                                         *)
(* Numbers.  Python floats are modelled in fixed point: every real         *)
(* quantity is the integer number of its thousandths (1.0 is 1000), and    *)
(* every operation truncates to that grid the way floor does.  Stellar     *)
(* temperatures are whole kelvins.  A ratio (hzd) is kept as an exact      *)
(* fraction <<numerator, denominator>>.  All values stay below 2^31.       *)
(*                                                                         *)
(* JSON values.  null is None == <<>>, a number or string v is <<v>>.  A   *)
(* JSON object is a function from its keys to such values; dict.get(k)     *)
(* is Get(d, k).  A list element, and the loaded document itself, is       *)
(* tagged with its Python type.                                            *)
(*                                                                         *)
(* results is the sequence of the records appended so far; results_type    *)
(* is the Python type of the variable results, which the single-planet     *)
(* branch rebinds to the one record itself.                                *)
(*                                                                         *)
(* Exceptions.  A function that raises returns Raise(e); callers           *)
(* propagate it the way an uncaught Python exception propagates.           *)
(***************************************************************************)
EXTENDS Integers, Sequences, FiniteSets, TLC

VARIABLES data, i, results, results_type, processed_planets, printed, pc, written

vars == <<data, i, results, results_type, processed_planets, printed, pc, written>>

---------------------------------------------------------------------------
(* Python values *)

None == <<>>

Some(v) == <<v>>

Val(x) == x[1]

\* Python truthiness of an optional number: None and 0 are falsy
Truthy(x) == x # None /\ Val(x) # 0

\* Python truthiness of an optional string: None and "" are falsy
TruthyStr(x) == x # None /\ Val(x) # <<>>

\* dict.get(key): the value, None when the key is missing
Get(d, key) == IF key \in DOMAIN d THEN d[key] ELSE None

\* dict.get(key, default)
GetDefault(d, key, default) == IF key \in DOMAIN d THEN d[key] ELSE default

Raise(e) == [raised |-> e]

IsRaise(r) == DOMAIN r = {"raised"}

---------------------------------------------------------------------------
(* Fixed-point arithmetic *)

\* floor(a * b / c) without an intermediate product beyond 32 bits, c > 0
MulDiv(a, b, c) == (a \div c) * b + ((a % c) * b) \div c

\* x * y on the thousandths grid
FMul(x, y) == MulDiv(x, y, 1000)

\* x / y on the thousandths grid, y # 0; the sign follows Python's
FDiv(x, y) == IF y > 0 THEN MulDiv(x, 1000, y) ELSE MulDiv(-x, 1000, -y)

RECURSIVE SqrtSearch(_, _, _)
SqrtSearch(n, lo, hi) ==
    IF lo >= hi THEN lo
    ELSE LET mid == (lo + hi + 1) \div 2
         IN  IF mid * mid <= n THEN SqrtSearch(n, mid, hi)
                               ELSE SqrtSearch(n, lo, mid - 1)

\* floor of the square root of n >= 0
ISqrt(n) == SqrtSearch(n, 0, 46340)

\* math.sqrt on the thousandths grid: sqrt(x/1000) * 1000, x >= 0
FSqrt(x) == ISqrt(x * 1000)

\* exact fractions <<n, d>> with d # 0, compared with an integer k
FracLT(f, k) == IF f[2] > 0 THEN f[1] < k * f[2] ELSE f[1] > k * f[2]

FracGT(f, k) == IF f[2] > 0 THEN f[1] > k * f[2] ELSE f[1] < k * f[2]

FracBetween(f, lo, hi) == ~FracLT(f, lo) /\ ~FracGT(f, hi)

---------------------------------------------------------------------------
(* calculate_habitable_zone *)

\* Reference temperature in K
ts == 5700

\* 2.7619e-5, in units of 1e-9
ai == 27619

\* 3.8095e-9, in units of 1e-13
bi == 38095

\* 1.3786e-4, in units of 1e-8
ao == 13786

\* 1.4286e-9, in units of 1e-13
bo == 14286

\* Inner boundary for Sun in AU (0.72)
ris == 720

\* Outer boundary for Sun in AU (1.77)
ros == 1770

\* 1.0 + ai * (star_temp - ts) - bi * (star_temp - ts)**2
InnerDenominator(star_temp) ==
    LET dT == star_temp - ts
    IN  1000 + (ai * dT) \div 1000000 - (bi * ((dT * dT) \div 100000)) \div 100000

\* 1.0 + ao * (star_temp - ts) - bo * (star_temp - ts)**2
OuterDenominator(star_temp) ==
    LET dT == star_temp - ts
    IN  1000 + (ao * dT) \div 100000 - (bo * ((dT * dT) \div 100000)) \div 100000

\* boundary * math.sqrt(star_luminosity / denominator): the quotient raises
\* ZeroDivisionError on a zero denominator, math.sqrt raises ValueError on a
\* negative argument
ZoneBoundary(boundary, star_luminosity, denominator) ==
    IF denominator = 0 THEN Raise("ZeroDivisionError")
    ELSE LET q == FDiv(star_luminosity, denominator)
         IN  IF q < 0 THEN Raise("ValueError")
             ELSE [value |-> FMul(boundary, FSqrt(q))]

\* calculate_habitable_zone returning its two boundaries in the wrong order
calculate_habitable_zone_Swapped(star_luminosity, star_temp) ==
    LET ri == ZoneBoundary(ris, star_luminosity, InnerDenominator(star_temp))
        ro == ZoneBoundary(ros, star_luminosity, OuterDenominator(star_temp))
    IN  IF IsRaise(ri) THEN ri
        ELSE IF IsRaise(ro) THEN ro
        ELSE [ri |-> ro.value, ro |-> ri.value]

\* returns [ri, ro], or the exception of the first boundary that raises
calculate_habitable_zone(star_luminosity, star_temp) ==
    LET ri == ZoneBoundary(ris, star_luminosity, InnerDenominator(star_temp))
        ro == ZoneBoundary(ros, star_luminosity, OuterDenominator(star_temp))
    IN  IF IsRaise(ri) THEN ri
        ELSE IF IsRaise(ro) THEN ro
        ELSE [ri |-> ri.value, ro |-> ro.value]

---------------------------------------------------------------------------
(* calculate_hzd *)

\* hzd = (planet_distance - hz_center) / hz_half_width, kept as the exact
\* fraction of the doubled terms: hz_center = (inner_hz + outer_hz) / 2 and
\* hz_half_width = (outer_hz - inner_hz) / 2.  A zero half width raises.
calculate_hzd(planet_distance, inner_hz, outer_hz) ==
    LET hz_center2 == inner_hz + outer_hz
        hz_half_width2 == outer_hz - inner_hz
    IN  IF hz_half_width2 = 0 THEN Raise("ZeroDivisionError")
        ELSE [hzd |-> <<2 * planet_distance - hz_center2, hz_half_width2>>]

---------------------------------------------------------------------------
(* parse_stellar_luminosity *)

\* K
sun_temp == 5778

\* parse_stellar_luminosity with the reference temperature of the habitable
\* zone (ts) in the place of sun_temp
parse_stellar_luminosity_ReferenceTs(star_radius, star_temp) ==
    IF ~Truthy(star_radius) \/ ~Truthy(star_temp) THEN None
    ELSE LET t == (Val(star_temp) * 1000) \div ts
             t2 == FMul(t, t)
             r2 == FMul(Val(star_radius), Val(star_radius))
         IN  Some(FMul(r2, FMul(t2, t2)))

\* (star_radius**2) * ((star_temp / sun_temp)**4), None on a falsy argument
parse_stellar_luminosity(star_radius, star_temp) ==
    IF ~Truthy(star_radius) \/ ~Truthy(star_temp) THEN None
    ELSE LET t == (Val(star_temp) * 1000) \div sun_temp
             t2 == FMul(t, t)
             r2 == FMul(Val(star_radius), Val(star_radius))
         IN  Some(FMul(r2, FMul(t2, t2)))

---------------------------------------------------------------------------
(* calculate_earth_distance_light_years *)

\* calculate_earth_distance_light_years preferring the parallax to the direct
\* distance
calculate_earth_distance_light_years_ParallaxFirst(parallax, distance_parsecs) ==
    IF parallax # None /\ Val(parallax) # 0
    THEN LET parsecs == FDiv(1000 * 1000, Val(parallax))
         IN  Some(FMul(parsecs, 3260))
    ELSE IF distance_parsecs # None THEN Some(FMul(Val(distance_parsecs), 3260))
    ELSE None

calculate_earth_distance_light_years(parallax, distance_parsecs) ==
    IF distance_parsecs # None THEN Some(FMul(Val(distance_parsecs), 3260))
    ELSE IF parallax # None /\ Val(parallax) # 0
         THEN LET parsecs == FDiv(1000 * 1000, Val(parallax))
              IN  Some(FMul(parsecs, 3260))
         ELSE None

---------------------------------------------------------------------------
(* is_planet_habitable *)

\* planet_mass and planet_radius are the record itself (a dict, so that
\* "is not None" and hasattr(.., 'get') hold)
is_planet_habitable(planet_distance, inner_hz, outer_hz, planet_mass, planet_radius) ==
    LET in_habitable_zone == inner_hz <= planet_distance /\ planet_distance <= outer_hz
        mass_suitable ==
            IF Get(planet_mass, "pl_bmassj") # None
            THEN LET jupiter_mass == Val(Get(planet_mass, "pl_bmassj"))
                     earth_mass_equivalent == FMul(jupiter_mass, 317800)
                 IN  100 <= earth_mass_equivalent /\ earth_mass_equivalent <= 10000
            ELSE IF Get(planet_mass, "pl_bmasse") # None
            THEN LET earth_mass == Val(Get(planet_mass, "pl_bmasse"))
                 IN  100 <= earth_mass /\ earth_mass <= 10000
            ELSE TRUE
        size_suitable ==
            IF Get(planet_radius, "pl_rade") # None
            THEN LET earth_radius == Val(Get(planet_radius, "pl_rade"))
                 IN  500 <= earth_radius /\ earth_radius <= 2000
            ELSE TRUE
    IN  IF in_habitable_zone
        THEN IF mass_suitable /\ size_suitable
             THEN "Potentially habitable"
             ELSE "In habitable zone but may not have right mass/size for habitability"
        ELSE "Not in habitable zone"

---------------------------------------------------------------------------
(* get_planet_type *)

\* get_planet_type with one of its rows changed:
\*   "mass rows"       the both-known table tests the mass alone
\*   "mass-only first" the mass-only table is tried before the both-known one
\*   "plain label"     the mass-only Mini-Neptune row loses its "Possibly"
get_planet_type_Variant(planet_mass, planet_radius, variant) ==
    LET earth_mass ==
            IF Get(planet_mass, "pl_bmassj") # None
            THEN Some(FMul(Val(Get(planet_mass, "pl_bmassj")), 317800))
            ELSE IF Get(planet_mass, "pl_bmasse") # None
            THEN Get(planet_mass, "pl_bmasse")
            ELSE IF Get(planet_mass, "pl_msinij") # None
            THEN Some(FMul(Val(Get(planet_mass, "pl_msinij")), 317800))
            ELSE IF Get(planet_mass, "pl_msinie") # None
            THEN Get(planet_mass, "pl_msinie")
            ELSE None
        earth_radius ==
            IF Get(planet_radius, "pl_rade") # None
            THEN Get(planet_radius, "pl_rade")
            ELSE IF Get(planet_radius, "pl_radj") # None
            THEN Some(FMul(Val(Get(planet_radius, "pl_radj")), 11200))
            ELSE None
        m == Val(earth_mass)
        r == Val(earth_radius)
        mass_rows == variant = "mass rows"
        both == earth_mass # None /\ earth_radius # None /\ variant # "mass-only first"
    IN  IF both
        THEN IF m < 100 THEN "Sub-Earth/Mercury-like"
             ELSE IF m < 2000 /\ (mass_rows \/ r < 1500) THEN "Earth-like terrestrial planet"
             ELSE IF m < 10000 /\ (mass_rows \/ r < 2500) THEN "Super-Earth"
             ELSE IF m < 50000 /\ (mass_rows \/ r < 6000) THEN "Mini-Neptune/Gas Dwarf"
             ELSE IF m < 500000 THEN "Neptune-like gas giant"
             ELSE "Jupiter-like gas giant"
        ELSE IF earth_mass # None
        THEN IF m < 100 THEN "Sub-Earth/Mercury-like"
             ELSE IF m < 2000 THEN "Possibly Earth-like"
             ELSE IF m < 10000 THEN "Possibly Super-Earth"
             ELSE IF m < 50000
                  THEN IF variant = "plain label" THEN "Mini-Neptune/Gas Dwarf"
                       ELSE "Possibly Mini-Neptune"
             ELSE IF m < 500000 THEN "Neptune-like gas giant"
             ELSE "Jupiter-like gas giant"
        ELSE IF earth_radius # None
        THEN IF r < 800 THEN "Sub-Earth/Mercury-like"
             ELSE IF r < 1500 THEN "Possibly Earth-like"
             ELSE IF r < 2500 THEN "Possibly Super-Earth"
             ELSE IF r < 6000 THEN "Possibly Mini-Neptune/Gas Dwarf"
             ELSE IF r < 15000 THEN "Neptune-like gas giant"
             ELSE "Jupiter-like gas giant"
        ELSE "Unknown (insufficient data)"

get_planet_type_MassRows(planet_mass, planet_radius) ==
    get_planet_type_Variant(planet_mass, planet_radius, "mass rows")

get_planet_type_MassOnlyFirst(planet_mass, planet_radius) ==
    get_planet_type_Variant(planet_mass, planet_radius, "mass-only first")

get_planet_type_PlainLabel(planet_mass, planet_radius) ==
    get_planet_type_Variant(planet_mass, planet_radius, "plain label")

get_planet_type(planet_mass, planet_radius) ==
    LET earth_mass ==
            IF Get(planet_mass, "pl_bmassj") # None
            THEN Some(FMul(Val(Get(planet_mass, "pl_bmassj")), 317800))
            ELSE IF Get(planet_mass, "pl_bmasse") # None
            THEN Get(planet_mass, "pl_bmasse")
            ELSE IF Get(planet_mass, "pl_msinij") # None
            THEN Some(FMul(Val(Get(planet_mass, "pl_msinij")), 317800))
            ELSE IF Get(planet_mass, "pl_msinie") # None
            THEN Get(planet_mass, "pl_msinie")
            ELSE None
        earth_radius ==
            IF Get(planet_radius, "pl_rade") # None
            THEN Get(planet_radius, "pl_rade")
            ELSE IF Get(planet_radius, "pl_radj") # None
            THEN Some(FMul(Val(Get(planet_radius, "pl_radj")), 11200))
            ELSE None
        m == Val(earth_mass)
        r == Val(earth_radius)
    IN  IF earth_mass # None /\ earth_radius # None
        THEN IF m < 100 THEN "Sub-Earth/Mercury-like"
             ELSE IF m < 2000 /\ r < 1500 THEN "Earth-like terrestrial planet"
             ELSE IF m < 10000 /\ r < 2500 THEN "Super-Earth"
             ELSE IF m < 50000 /\ r < 6000 THEN "Mini-Neptune/Gas Dwarf"
             ELSE IF m < 500000 THEN "Neptune-like gas giant"
             ELSE "Jupiter-like gas giant"
        ELSE IF earth_mass # None
        THEN IF m < 100 THEN "Sub-Earth/Mercury-like"
             ELSE IF m < 2000 THEN "Possibly Earth-like"
             ELSE IF m < 10000 THEN "Possibly Super-Earth"
             ELSE IF m < 50000 THEN "Possibly Mini-Neptune"
             ELSE IF m < 500000 THEN "Neptune-like gas giant"
             ELSE "Jupiter-like gas giant"
        ELSE IF earth_radius # None
        THEN IF r < 800 THEN "Sub-Earth/Mercury-like"
             ELSE IF r < 1500 THEN "Possibly Earth-like"
             ELSE IF r < 2500 THEN "Possibly Super-Earth"
             ELSE IF r < 6000 THEN "Possibly Mini-Neptune/Gas Dwarf"
             ELSE IF r < 15000 THEN "Neptune-like gas giant"
             ELSE "Jupiter-like gas giant"
        ELSE "Unknown (insufficient data)"

---------------------------------------------------------------------------
(* calculate_surface_gravity *)

\* returns [value |-> gravity or None]; earth_radius**2 = 0 raises
calculate_surface_gravity(planet_mass, planet_radius) ==
    LET earth_mass ==
            IF Get(planet_mass, "pl_bmassj") # None
            THEN Some(FMul(Val(Get(planet_mass, "pl_bmassj")), 317800))
            ELSE IF Get(planet_mass, "pl_bmasse") # None
            THEN Get(planet_mass, "pl_bmasse")
            ELSE None
        earth_radius ==
            IF Get(planet_radius, "pl_rade") # None
            THEN Get(planet_radius, "pl_rade")
            ELSE IF Get(planet_radius, "pl_radj") # None
            THEN Some(FMul(Val(Get(planet_radius, "pl_radj")), 11200))
            ELSE None
    IN  IF earth_mass = None \/ earth_radius = None THEN [value |-> None]
        ELSE LET squared == FMul(Val(earth_radius), Val(earth_radius))
             IN  IF squared = 0 THEN Raise("ZeroDivisionError")
                 ELSE [value |-> Some(FDiv(Val(earth_mass), squared))]

---------------------------------------------------------------------------
(* get_star_type_from_spectype *)

\* a string is the sequence of its characters
IsSpace(c) == c = " "

RECURSIVE LStrip(_)
LStrip(s) == IF s # <<>> /\ IsSpace(Head(s)) THEN LStrip(Tail(s)) ELSE s

RECURSIVE TakeToken(_)
TakeToken(s) ==
    IF s = <<>> \/ IsSpace(Head(s)) THEN <<>> ELSE <<Head(s)>> \o TakeToken(Tail(s))

\* sub in s
Contains(s, sub) ==
    \E k \in 0..(Len(s) - Len(sub)) : SubSeq(s, k + 1, k + Len(sub)) = sub

StartsWith(s, c) == s # <<>> /\ Head(s) = c

\* returns [value |-> label or None]; spectype.strip().split()[0] raises
\* IndexError when split() finds no token
get_star_type_from_spectype(spectype) ==
    IF ~TruthyStr(spectype) THEN [value |-> None]
    ELSE LET str == Val(spectype)
             tokens_empty == LStrip(str) = <<>>
             spectral_type == TakeToken(LStrip(str))
             giant == \/ Contains(str, <<"I", "I", "I">>)
                      \/ Contains(str, <<"I", "I">>)
                      \/ Contains(str, <<"I">>)
         IN  IF tokens_empty THEN Raise("IndexError")
             ELSE IF StartsWith(spectral_type, "O") THEN [value |-> Some("extremely hot O-type star")]
             ELSE IF StartsWith(spectral_type, "B") THEN [value |-> Some("very hot B-type star")]
             ELSE IF StartsWith(spectral_type, "A") THEN [value |-> Some("hot A-type star")]
             ELSE IF StartsWith(spectral_type, "F") THEN [value |-> Some("F-type star (hotter than our Sun)")]
             ELSE IF StartsWith(spectral_type, "G")
                  THEN IF giant THEN [value |-> Some("G-type giant star")]
                       ELSE [value |-> Some("G-type star (similar to our Sun)")]
             ELSE IF StartsWith(spectral_type, "K")
                  THEN IF giant THEN [value |-> Some("K-type giant star")]
                       ELSE [value |-> Some("K-type orange dwarf star")]
             ELSE IF StartsWith(spectral_type, "M")
                  THEN IF giant THEN [value |-> Some("M-type giant star")]
                       ELSE [value |-> Some("M-type red dwarf star")]
             ELSE IF \/ StartsWith(spectral_type, "L")
                     \/ StartsWith(spectral_type, "T")
                     \/ StartsWith(spectral_type, "Y")
                  THEN [value |-> Some("very cool brown dwarf")]
             ELSE [value |-> Some("unknown type star")]

---------------------------------------------------------------------------
(* analyze_exoplanet, one operator per entry of layman_explanation *)

\* an f-string: its template and the values formatted into it
Sentence(text, args) == [text |-> text, args |-> args]

\* st_lum, or the luminosity derived from st_rad and st_teff
StarLuminosity(planet_data) ==
    LET star_radius == Get(planet_data, "st_rad")
        star_temp == Get(planet_data, "st_teff")
        star_luminosity == Get(planet_data, "st_lum")
    IN  IF star_luminosity = None /\ Truthy(star_radius) /\ Truthy(star_temp)
        THEN parse_stellar_luminosity(star_radius, star_temp)
        ELSE star_luminosity

DistanceEntry(planet_data) ==
    LET parallax == Get(planet_data, "sy_plx")
        distance_parsecs == Get(planet_data, "sy_dist")
        distance_ly == calculate_earth_distance_light_years(parallax, distance_parsecs)
    IN  IF Truthy(distance_ly)
        THEN [answer |-> Sentence("This planet is approximately {:.1f} light years away from Earth.",
                                  <<Val(distance_ly)>>),
              value |-> distance_ly,
              unit |-> "light years"]
        ELSE [answer |-> Sentence("Insufficient data to determine distance from Earth.", <<>>),
              value |-> None,
              unit |-> "light years"]

\* the entry, or the exception raised by calculate_habitable_zone or
\* calculate_hzd
HabitabilityEntry(planet_data) ==
    LET star_temp == Get(planet_data, "st_teff")
        star_luminosity == StarLuminosity(planet_data)
        planet_distance == Get(planet_data, "pl_orbsmax")
    IN  IF Truthy(star_luminosity) /\ Truthy(star_temp) /\ Truthy(planet_distance)
        THEN LET zone == calculate_habitable_zone(Val(star_luminosity), Val(star_temp))
                 inner_hz == zone.ri
                 outer_hz == zone.ro
                 hzd_result == calculate_hzd(Val(planet_distance), inner_hz, outer_hz)
                 hzd == hzd_result.hzd
                 habitability == is_planet_habitable(Val(planet_distance), inner_hz, outer_hz,
                                                     planet_data, planet_data)
                 position == IF FracLT(hzd, -1) THEN "too close to its star (too hot)"
                             ELSE IF FracGT(hzd, 1) THEN "too far from its star (too cold)"
                             ELSE "within the habitable zone"
             IN  IF IsRaise(zone) THEN zone
                 ELSE IF IsRaise(hzd_result) THEN hzd_result
                 ELSE [answer |-> Sentence("This planet is {}. {}.", <<position, habitability>>),
                       habitable_zone_distance |-> Some(hzd),
                       inner_habitable_boundary |-> Some(inner_hz),
                       outer_habitable_boundary |-> Some(outer_hz),
                       actual_distance |-> planet_distance,
                       assessment |-> habitability]
        ELSE [answer |-> Sentence("Insufficient data to determine habitability.", <<>>),
              habitable_zone_distance |-> None,
              assessment |-> "Unknown"]

PlanetTypeEntry(planet_data) ==
    LET planet_type == get_planet_type(planet_data, planet_data)
    IN  [answer |-> Sentence("This appears to be a {}.", <<planet_type>>),
         type |-> planet_type]

SizeEntry(planet_data) ==
    IF Truthy(Get(planet_data, "pl_rade"))
    THEN LET earth_radius_ratio == Get(planet_data, "pl_rade")
         IN  [answer |-> Sentence("This planet is approximately {:.1f} times the radius of Earth.",
                                  <<Val(earth_radius_ratio)>>),
              earth_radius_ratio |-> earth_radius_ratio]
    ELSE IF Truthy(Get(planet_data, "pl_radj"))
    THEN LET jupiter_radius_ratio == Get(planet_data, "pl_radj")
             earth_radius_ratio == Some(FMul(Val(jupiter_radius_ratio), 11200))
         IN  [answer |-> Sentence("This planet is approximately {:.1f} times the radius of Earth (or {:.2f} Jupiter radii).",
                                  <<Val(earth_radius_ratio), Val(jupiter_radius_ratio)>>),
              earth_radius_ratio |-> earth_radius_ratio,
              jupiter_radius_ratio |-> jupiter_radius_ratio]
    ELSE [answer |-> Sentence("Insufficient data to determine the planet's size relative to Earth.", <<>>),
          earth_radius_ratio |-> None]

MinimumMassNote == "This is a minimum mass value derived from radial velocity measurements."

MassEntry(planet_data) ==
    IF Truthy(Get(planet_data, "pl_bmasse"))
    THEN LET earth_mass_ratio == Get(planet_data, "pl_bmasse")
         IN  [answer |-> Sentence("This planet has approximately {:.1f} times the mass of Earth.",
                                  <<Val(earth_mass_ratio)>>),
              earth_mass_ratio |-> earth_mass_ratio]
    ELSE IF Truthy(Get(planet_data, "pl_bmassj"))
    THEN LET jupiter_mass_ratio == Get(planet_data, "pl_bmassj")
             earth_mass_ratio == Some(FMul(Val(jupiter_mass_ratio), 317800))
         IN  [answer |-> Sentence("This planet has approximately {:.1f} times the mass of Earth (or {:.2f} Jupiter masses).",
                                  <<Val(earth_mass_ratio), Val(jupiter_mass_ratio)>>),
              earth_mass_ratio |-> earth_mass_ratio,
              jupiter_mass_ratio |-> jupiter_mass_ratio]
    ELSE IF Truthy(Get(planet_data, "pl_msinie")) \/ Truthy(Get(planet_data, "pl_msinij"))
    THEN IF Truthy(Get(planet_data, "pl_msinie"))
         THEN LET earth_mass_ratio == Get(planet_data, "pl_msinie")
              IN  [answer |-> Sentence("This planet has a minimum mass of approximately {:.1f} times the mass of Earth.",
                                       <<Val(earth_mass_ratio)>>),
                   earth_mass_ratio |-> earth_mass_ratio,
                   note |-> MinimumMassNote]
         ELSE LET jupiter_mass_ratio == Get(planet_data, "pl_msinij")
                  earth_mass_ratio == Some(FMul(Val(jupiter_mass_ratio), 317800))
              IN  [answer |-> Sentence("This planet has a minimum mass of approximately {:.1f} times the mass of Earth (or {:.2f} Jupiter masses).",
                                       <<Val(earth_mass_ratio), Val(jupiter_mass_ratio)>>),
                   earth_mass_ratio |-> earth_mass_ratio,
                   jupiter_mass_ratio |-> jupiter_mass_ratio,
                   note |-> MinimumMassNote]
    ELSE [answer |-> Sentence("Insufficient data to determine the planet's mass relative to Earth.", <<>>),
          earth_mass_ratio |-> None]

\* the entry, or the exception raised by calculate_surface_gravity
GravityEntry(planet_data) ==
    LET gravity == calculate_surface_gravity(planet_data, planet_data)
    IN  IF IsRaise(gravity) THEN gravity
        ELSE IF Truthy(gravity.value)
        THEN [answer |-> Sentence("The surface gravity on this planet would be approximately {:.1f} times that of Earth.",
                                  <<Val(gravity.value)>>),
              earth_gravity_ratio |-> gravity.value]
        ELSE [answer |-> Sentence("Insufficient data to determine the planet's surface gravity.", <<>>),
              earth_gravity_ratio |-> None]

YearLengthEntry(planet_data) ==
    IF Truthy(Get(planet_data, "pl_orbper"))
    THEN LET orbital_period == Get(planet_data, "pl_orbper")
             year_comparison ==
                 IF Val(orbital_period) < 1000
                 THEN Sentence("A year on this planet lasts approximately {:.1f} hours, which is much shorter than Earth's year.",
                               <<Val(orbital_period) * 24>>)
                 ELSE IF Val(orbital_period) < 10000
                 THEN Sentence("A year on this planet lasts approximately {:.1f} days, which is much shorter than Earth's year.",
                               <<Val(orbital_period)>>)
                 ELSE Sentence("A year on this planet lasts approximately {:.1f} days (Earth's year is 365.25 days).",
                               <<Val(orbital_period)>>)
         IN  [answer |-> year_comparison,
              orbital_period_days |-> orbital_period]
    ELSE [answer |-> Sentence("Insufficient data to determine how long a year is on this planet.", <<>>),
          orbital_period_days |-> None]

\* the temperature ladder used when the spectral type gave no label
StarTypeFromTemperature(star_temp) ==
    IF star_temp > 30000 THEN "extremely hot O-type star"
    ELSE IF star_temp > 10000 THEN "very hot B-type star"
    ELSE IF star_temp > 7500 THEN "hot A-type star"
    ELSE IF star_temp > 6000 THEN "F-type star (hotter than our Sun)"
    ELSE IF star_temp > 5200 THEN "G-type star (similar to our Sun)"
    ELSE IF star_temp > 3700 THEN "K-type orange dwarf star"
    ELSE IF star_temp > 2400 THEN "M-type red dwarf star"
    ELSE "very cool brown dwarf"

\* the entry, or the exception raised by get_star_type_from_spectype
StarTypeEntry(planet_data) ==
    LET star_temp == Get(planet_data, "st_teff")
        star_spectype == Get(planet_data, "st_spectype")
        from_spectype == get_star_type_from_spectype(star_spectype)
        star_type == IF from_spectype.value = None /\ Truthy(star_temp)
                     THEN Some(StarTypeFromTemperature(Val(star_temp)))
                     ELSE from_spectype.value
    IN  IF IsRaise(from_spectype) THEN from_spectype
        ELSE IF star_type # None /\ Truthy(star_temp)
        THEN [answer |-> Sentence("This planet orbits a {} with a temperature of {} K (our Sun is about 5778 K).",
                                  <<Val(star_type), Val(star_temp)>>),
              star_temperature |-> star_temp,
              star_type |-> Val(star_type)]
        ELSE IF star_type # None
        THEN [answer |-> Sentence("This planet orbits a {}.", <<Val(star_type)>>),
              star_temperature |-> None,
              star_type |-> Val(star_type)]
        ELSE IF Truthy(star_temp)
        THEN [answer |-> Sentence("This planet orbits a star with a temperature of {} K (our Sun is about 5778 K).",
                                  <<Val(star_temp)>>),
              star_temperature |-> star_temp,
              star_type |-> "Unknown"]
        ELSE [answer |-> Sentence("Insufficient data to determine the type of star this planet orbits.", <<>>),
              star_temperature |-> None,
              star_type |-> "Unknown"]

\* the explanation built without the else branch of the gravity entry: no
\* gravity entry when the gravity is unknown
LaymanExplanation_NoGravityElse(planet_data, habitability, gravity, star_type) ==
    LET always == [distance |-> DistanceEntry(planet_data),
                   habitability |-> habitability,
                   planet_type |-> PlanetTypeEntry(planet_data),
                   size |-> SizeEntry(planet_data),
                   mass |-> MassEntry(planet_data),
                   year_length |-> YearLengthEntry(planet_data),
                   star_type |-> star_type]
    IN  IF gravity.earth_gravity_ratio # None THEN ("gravity" :> gravity) @@ always
        ELSE always

\* results["layman_explanation"]: the eight entries, those that can raise
\* already computed
LaymanExplanation(planet_data, habitability, gravity, star_type) ==
    [distance |-> DistanceEntry(planet_data),
     habitability |-> habitability,
     planet_type |-> PlanetTypeEntry(planet_data),
     size |-> SizeEntry(planet_data),
     mass |-> MassEntry(planet_data),
     gravity |-> gravity,
     year_length |-> YearLengthEntry(planet_data),
     star_type |-> star_type]

\* the explanation record, or the first exception raised on the way
analyze_exoplanet(planet_data) ==
    LET habitability == HabitabilityEntry(planet_data)
        gravity == GravityEntry(planet_data)
        star_type == StarTypeEntry(planet_data)
    IN  IF IsRaise(habitability) THEN habitability
        ELSE IF IsRaise(gravity) THEN gravity
        ELSE IF IsRaise(star_type) THEN star_type
        ELSE [planet_name |-> GetDefault(planet_data, "pl_name", Some("Unnamed planet")),
              host_star |-> GetDefault(planet_data, "hostname", Some("Unknown star")),
              discovery_method |-> GetDefault(planet_data, "discoverymethod", Some("Unknown method")),
              discovery_year |-> GetDefault(planet_data, "disc_year", Some("Unknown year")),
              layman_explanation |-> LaymanExplanation(planet_data, habitability, gravity, star_type)]

---------------------------------------------------------------------------
(* Inputs: the loaded JSON document *)

\* the longest batch of the mixed batches
MaxBatch == 3

\* a JSON object as a list element
Dict(items) == [type |-> "dict", items |-> items]

\* a JSON number as a list element
Number == [type |-> "int", items |-> <<>>]

Kepler42b == Some("Kepler-42 b")

Kepler9c == Some("Kepler-9 c")

\* a record that carries the name analyze_exoplanet gives to a record without one
Unnamed == Some("Unnamed planet")

\* an Earth-like record
EarthLike(name) ==
    ("pl_name" :> name) @@ ("pl_rade" :> Some(1000)) @@ ("pl_bmasse" :> Some(1000))

\* a record with other data
SuperEarth(name) ==
    ("pl_name" :> name) @@ ("pl_rade" :> Some(2000)) @@ ("pl_bmasse" :> Some(5000))
    @@ ("sy_plx" :> Some(100000))

\* a record on which calculate_surface_gravity divides by zero
ZeroRadius(name) ==
    ("pl_name" :> name) @@ ("pl_rade" :> Some(0)) @@ ("pl_bmasse" :> Some(1000))

\* the elements of the mixed batches: three names, a null name, a missing
\* name, records that raise, and an element that is no mapping
Elements ==
    { Dict(EarthLike(Kepler42b)), Dict(SuperEarth(Kepler42b)), Dict(ZeroRadius(Kepler42b)),
      Dict(EarthLike(Kepler9c)), Dict(ZeroRadius(Kepler9c)),
      Dict(EarthLike(None)), Dict("pl_rade" :> Some(2000)), Dict(EarthLike(Unnamed)),
      Number }

Batches == UNION { [1..n -> Elements] : n \in 0..MaxBatch }

\* single records that vary the stellar fields of the habitable zone
Luminosities == {None, Some(0), Some(-1000), Some(500), Some(1000), Some(2000)}

Temperatures ==
    {None} \cup { Some(500 * k) : k \in 0..53 } \cup { Some(t) : t \in {5778, 21600, 21700, 25900} }

OrbitalDistances ==
    {None} \cup { Some(d) : d \in {0, 500, 720, 1000, 1012, 1200, 1500, 1770, 3000} }

ZoneRecords ==
    { ("pl_name" :> Kepler42b) @@ ("st_lum" :> l) @@ ("st_teff" :> t) @@ ("pl_orbsmax" :> d) :
        l \in Luminosities, t \in Temperatures, d \in OrbitalDistances }

\* single records whose luminosity comes from st_rad and st_teff
DerivedLuminosityRecords ==
    { ("pl_name" :> Kepler42b) @@ ("st_lum" :> l) @@ ("st_rad" :> r) @@ ("st_teff" :> t)
      @@ ("pl_orbsmax" :> d) :
        l \in {None, Some(0)}, r \in {None, Some(0), Some(1000)},
        t \in {None, Some(0), Some(5700), Some(5778), Some(24000)},
        d \in {None, Some(0), Some(1000), Some(1200)} }

\* single records that vary the mass and radius fields, in and out of the zone
PlanetRecords ==
    { ("pl_name" :> Kepler42b) @@ ("st_lum" :> Some(1000)) @@ ("st_teff" :> Some(5700))
      @@ ("pl_orbsmax" :> d) @@ ("pl_bmasse" :> me) @@ ("pl_bmassj" :> mj)
      @@ ("pl_msinie" :> se) @@ ("pl_msinij" :> sj) @@ ("pl_rade" :> re) @@ ("pl_radj" :> rj) :
        d \in {None, Some(1000), Some(3000)},
        me \in {None, Some(0), Some(50), Some(1000), Some(50000)},
        mj \in {None, Some(0), Some(3), Some(1000)},
        se \in {None, Some(5000), Some(50000)},
        sj \in {None, Some(3), Some(1000)},
        re \in {None, Some(0), Some(1000), Some(3000)},
        rj \in {None, Some(0), Some(100), Some(500)} }

\* single records on both sides of every threshold of get_planet_type
TypeMasses ==
    { Some(m) : m \in {99, 100, 1999, 2000, 9999, 10000, 49999, 50000, 499999, 500000} }

TypeRadii ==
    { Some(r) : r \in {799, 800, 1499, 1500, 2499, 2500, 5999, 6000} }

TypeRecords ==
    { ("pl_bmasse" :> m) @@ ("pl_rade" :> r) :
        m \in {None} \cup TypeMasses, r \in {None} \cup TypeRadii }
    \cup { ("pl_rade" :> Some(r)) : r \in {14999, 15000} }

\* spectral types, a string being the sequence of its characters
Spectypes ==
    { None,
      Some(<<>>),
      Some(<<" ", " ">>),
      Some(<<"O", "9">>),
      Some(<<"B", "2", " ", "V">>),
      Some(<<"A", "0">>),
      Some(<<"F", "5", " ", "I", "V">>),
      Some(<<"G", "2", "V">>),
      Some(<<" ", "G", "2", " ", "V">>),
      Some(<<"G", "8", " ", "I", "I", "I">>),
      Some(<<"G", "8", " ", "I", "V">>),
      Some(<<"K", "5">>),
      Some(<<"K", "1", " ", "I", "I">>),
      Some(<<"K", "0", "I", "V">>),
      Some(<<"M", "4", " ", "V">>),
      Some(<<"M", "1", " ", "I">>),
      Some(<<"M", "2", " ", "V", "I">>),
      Some(<<"L", "1">>),
      Some(<<"T", "5">>),
      Some(<<"X">>) }

\* stellar temperatures on both sides of every step of the ladder
LadderTemperatures ==
    {None} \cup { Some(t) : t \in {0, 2400, 2401, 3700, 3701, 5200, 5201, 6000, 6001, 7500, 7501,
                                   10000, 10001, 30000, 30001} }

\* single records that vary the spectral type and the stellar temperature
SpectypeRecords ==
    { ("st_spectype" :> sp) @@ ("st_teff" :> t) : sp \in Spectypes, t \in LadderTemperatures }

\* single records that vary the distance fields
DistanceRecords ==
    { ("sy_plx" :> p) @@ ("sy_dist" :> d) :
        p \in {None, Some(0), Some(-100000), Some(3000), Some(100000), Some(250000)},
        d \in {None, Some(0), Some(1300), Some(10000)} }

Singles ==
    { <<Dict(r)>> :
        r \in ZoneRecords \cup DerivedLuminosityRecords \cup PlanetRecords \cup DistanceRecords
              \cup TypeRecords \cup SpectypeRecords }

\* documents that are no list: numbers, strings, and None of a failed load
Scalars ==
    { [type |-> "int", value |-> 5], [type |-> "int", value |-> 0],
      [type |-> "str", chars |-> <<"a", "b", "c">>], [type |-> "str", chars |-> <<>>],
      [type |-> "NoneType"] }

\* documents that are a single record
SinglePlanets ==
    { [type |-> "dict", planet |-> r] : r \in { <<>>, EarthLike(Kepler42b), EarthLike(None), ZeroRadius(Kepler42b),
                        "pl_rade" :> Some(2000) } \cup DistanceRecords }

\* what load_exoplanet_data returned
Inputs ==
    { [type |-> "list", items |-> b] : b \in Batches \cup Singles } \cup SinglePlanets \cup Scalars

\* the truth value of the loaded document
TruthyData(d) ==
    CASE d.type = "list" -> d.items # <<>>
      [] d.type = "dict" -> DOMAIN d.planet # {}
      [] d.type = "int" -> d.value # 0
      [] d.type = "str" -> d.chars # <<>>
      [] d.type = "NoneType" -> FALSE

---------------------------------------------------------------------------
(* process_exoplanet_data *)

Init ==
    /\ data \in Inputs
    /\ i = 1
    /\ results = <<>>
    /\ results_type = "list"
    /\ processed_planets = {}
    /\ printed = <<>>
    /\ pc = "start"
    /\ written = None

\* "if not data": a falsy document is reported as a failed load
FailedToLoad ==
    /\ pc = "start"
    /\ ~TruthyData(data)
    /\ printed' = Append(printed, Sentence("Failed to load data from {}", <<>>))
    /\ pc' = "returned"
    /\ UNCHANGED <<data, i, results, results_type, processed_planets, written>>

\* results = [], processed_planets = set(), isinstance(data, list)
BeginBatch ==
    /\ pc = "start"
    /\ TruthyData(data)
    /\ data.type = "list"
    /\ results' = <<>>
    /\ processed_planets' = {}
    /\ i' = 1
    /\ pc' = "loop"
    /\ UNCHANGED <<data, results_type, printed, written>>

\* the single-planet branch: results = analyze_exoplanet(data)
SinglePlanet ==
    /\ pc = "start"
    /\ TruthyData(data)
    /\ data.type = "dict"
    /\ \E planet_result \in {analyze_exoplanet(data.planet)} :
           /\ ~IsRaise(planet_result)
           /\ results' = <<planet_result>>
           /\ results_type' = "dict"
           /\ printed' = Append(printed, Sentence("Processed planet: {}",
                                                  <<GetDefault(data.planet, "pl_name", Some("Unnamed"))>>))
    /\ pc' = "save"
    /\ UNCHANGED <<data, i, processed_planets, written>>

\* the except branch of the single planet: results stays the empty list
SinglePlanetError ==
    /\ pc = "start"
    /\ TruthyData(data)
    /\ data.type = "dict"
    /\ \E planet_result \in {analyze_exoplanet(data.planet)} :
           /\ IsRaise(planet_result)
           /\ printed' = Append(printed, Sentence("Error processing planet {}: {}",
                                                  <<GetDefault(data.planet, "pl_name", Some("Unnamed")),
                                                    planet_result.raised>>))
    /\ pc' = "save"
    /\ UNCHANGED <<data, i, results, results_type, processed_planets, written>>

\* a document that is neither a list nor a mapping: analyze_exoplanet raises
\* AttributeError on planet_data.get, and data.get in the except branch
\* raises it again, out of process_exoplanet_data
DataGetRaises ==
    /\ pc = "start"
    /\ TruthyData(data)
    /\ data.type \notin {"list", "dict"}
    /\ pc' = "raised"
    /\ UNCHANGED <<data, i, results, results_type, processed_planets, printed, written>>

planet == data.items[i]

InLoop == pc = "loop" /\ i <= Len(data.items)

\* planet.get('pl_name') on an element that has no get: the AttributeError
\* is raised outside the try and leaves process_exoplanet_data
PlanetGetRaises ==
    /\ InLoop
    /\ planet.type # "dict"
    /\ pc' = "raised"
    /\ UNCHANGED <<data, i, results, results_type, processed_planets, printed, written>>

SkipDuplicate ==
    /\ InLoop
    /\ planet.type = "dict"
    /\ LET planet_name == Get(planet.items, "pl_name")
       IN  /\ planet_name \in processed_planets
           /\ printed' = Append(printed, Sentence("Skipping duplicate planet: {}", <<planet_name>>))
    /\ i' = i + 1
    /\ UNCHANGED <<data, results, results_type, processed_planets, pc, written>>

\* ProcessPlanet keeping no trace of a record without a name
ProcessPlanet_ForgetsNameless ==
    /\ InLoop
    /\ planet.type = "dict"
    /\ LET planet_name == Get(planet.items, "pl_name")
           planet_result == analyze_exoplanet(planet.items)
       IN  /\ planet_name \notin processed_planets
           /\ ~IsRaise(planet_result)
           /\ results' = Append(results, planet_result)
           /\ processed_planets' = processed_planets \cup ({planet_name} \ {None})
           /\ printed' = Append(printed, Sentence("Processed planet: {}", <<planet_name>>))
    /\ i' = i + 1
    /\ UNCHANGED <<data, results_type, pc, written>>

ProcessPlanet ==
    /\ InLoop
    /\ planet.type = "dict"
    /\ LET planet_name == Get(planet.items, "pl_name")
           planet_result == analyze_exoplanet(planet.items)
       IN  /\ planet_name \notin processed_planets
           /\ ~IsRaise(planet_result)
           /\ results' = Append(results, planet_result)
           /\ processed_planets' = processed_planets \cup {planet_name}
           /\ printed' = Append(printed, Sentence("Processed planet: {}", <<planet_name>>))
    /\ i' = i + 1
    /\ UNCHANGED <<data, results_type, pc, written>>

\* ErrorProcessing adding the name of the failed record to processed_planets
ErrorProcessing_RemembersName ==
    /\ InLoop
    /\ planet.type = "dict"
    /\ LET planet_name == Get(planet.items, "pl_name")
           planet_result == analyze_exoplanet(planet.items)
       IN  /\ planet_name \notin processed_planets
           /\ IsRaise(planet_result)
           /\ processed_planets' = processed_planets \cup {planet_name}
           /\ printed' = Append(printed, Sentence("Error processing planet {}: {}",
                                                  <<planet_name, planet_result.raised>>))
    /\ i' = i + 1
    /\ UNCHANGED <<data, results, results_type, pc, written>>

\* except Exception: the record is reported and the loop goes on
ErrorProcessing ==
    /\ InLoop
    /\ planet.type = "dict"
    /\ LET planet_name == Get(planet.items, "pl_name")
           planet_result == analyze_exoplanet(planet.items)
       IN  /\ planet_name \notin processed_planets
           /\ IsRaise(planet_result)
           /\ printed' = Append(printed, Sentence("Error processing planet {}: {}",
                                                  <<planet_name, planet_result.raised>>))
    /\ i' = i + 1
    /\ UNCHANGED <<data, results, results_type, processed_planets, pc, written>>

\* json.dump(results) once the loop, or the single-planet branch, is over
SaveResults ==
    /\ \/ pc = "loop" /\ i > Len(data.items)
       \/ pc = "save"
    /\ written' = Some(IF results_type = "dict" THEN results[1] ELSE results)
    /\ printed' = printed \o <<Sentence("Results saved to {}", <<>>),
                               Sentence("Processed {} unique planets",
                                        <<Cardinality(processed_planets)>>)>>
    /\ pc' = "done"
    /\ UNCHANGED <<data, i, results, results_type, processed_planets>>

Next ==
    \/ FailedToLoad
    \/ BeginBatch
    \/ SinglePlanet
    \/ SinglePlanetError
    \/ DataGetRaises
    \/ PlanetGetRaises
    \/ SkipDuplicate
    \/ ProcessPlanet
    \/ ErrorProcessing
    \/ SaveResults

Spec == Init /\ [][Next]_vars

---------------------------------------------------------------------------
(* upload.py insert_data and exocli.py get_planets_in_habitable_zone *)

\* the characters of an assessment
AssessmentText(assessment) ==
    CASE assessment = "Potentially habitable" ->
            <<"P", "o", "t", "e", "n", "t", "i", "a", "l", "l", "y", " ", "h", "a",
            "b", "i", "t", "a", "b", "l", "e">>
      [] assessment = "In habitable zone but may not have right mass/size for habitability" ->
            <<"I", "n", " ", "h", "a", "b", "i", "t", "a", "b", "l", "e", " ", "z",
            "o", "n", "e", " ", "b", "u", "t", " ", "m", "a", "y", " ", "n", "o",
            "t", " ", "h", "a", "v", "e", " ", "r", "i", "g", "h", "t", " ", "m",
            "a", "s", "s", "/", "s", "i", "z", "e", " ", "f", "o", "r", " ", "h",
            "a", "b", "i", "t", "a", "b", "i", "l", "i", "t", "y">>
      [] assessment = "Not in habitable zone" ->
            <<"N", "o", "t", " ", "i", "n", " ", "h", "a", "b", "i", "t", "a", "b",
            "l", "e", " ", "z", "o", "n", "e">>
      [] assessment = "Unknown" ->
            <<"U", "n", "k", "n", "o", "w", "n">>

\* the comparison of LIKE ignores the case of a letter
Lower(c) ==
    CASE c = "P" -> "p"
      [] c = "I" -> "i"
      [] c = "N" -> "n"
      [] c = "U" -> "u"
      [] OTHER -> c

\* text LIKE '%pattern%'
Like(text, pattern) ==
    Contains([k \in 1..Len(text) |-> Lower(text[k])], [k \in 1..Len(pattern) |-> Lower(pattern[k])])

\* a record of the explanations file is stored as a row; the insert of a row
\* without a planet_name (NOT NULL) fails and is reported
Stored(planet_result) == planet_result.planet_name # None

Row(planet_result) ==
    [planet_name |-> planet_result.planet_name,
     assessment |-> planet_result.layman_explanation.habitability.assessment]

\* the table exo_planets after insert_data has read the written list
exo_planets ==
    IF written # None /\ results_type = "list"
    THEN LET stored == SelectSeq(Val(written), Stored)
         IN  [k \in 1..Len(stored) |-> Row(stored[k])]
    ELSE <<>>

\* WHERE assessment LIKE '%habitable zone%'
HabitableZoneLike(row) ==
    LET pattern == <<"h", "a", "b", "i", "t", "a", "b", "l", "e", " ", "z", "o", "n", "e">>
    IN  Like(AssessmentText(row.assessment), pattern)

get_planets_in_habitable_zone == SelectSeq(exo_planets, HabitableZoneLike)

---------------------------------------------------------------------------
(* Properties *)

\* a step that appends an explanation record
Emits == Len(results') = Len(results) + 1

\* the record that step appended
Emitted == results'[Len(results')]

\* the document is a batch
ListInput == data.type = "list"

\* the input records of the batch that are mappings
Mappings == { j \in 1..Len(data.items) : data.items[j].type = "dict" }

NameAt(j) == Get(data.items[j].items, "pl_name")

\* the planet names that occur in the batch
NamesInBatch == { NameAt(j) : j \in Mappings } \ {None}

\* the first input record, in arrival order, that carries the name
FirstCarrying(name) ==
    CHOOSE j \in Mappings : NameAt(j) = name /\ \A h \in Mappings : h < j => NameAt(h) # name

\* C1: once the batch is processed, for every planet name occurring in the
\* input the output holds exactly one explanation record with that name, and
\* it is the one derived from the first input record carrying the name.
C1_FirstOccurrenceEmitted ==
    pc = "done" /\ ListInput =>
        \A name \in NamesInBatch :
            LET hits == { k \in 1..Len(results) : results[k].planet_name = name }
            IN  /\ Cardinality(hits) = 1
                /\ \A k \in hits :
                      results[k] = analyze_exoplanet(data.items[FirstCarrying(name)].items)

\* C2: no single record aborts the batch: the loop of process_exoplanet_data
\* never ends in an exception that escapes it, whatever the shape of a list
\* element.
C2_NoRecordAbortsBatch == pc # "raised"

\* C3: analyze_exoplanet never raises for a record whose fields are each null
\* or a finite number: the batch loop never reports "Error processing planet".
C3_AnalyzeNeverRaises ==
    \A k \in 1..Len(printed) : printed[k].text # "Error processing planet {}: {}"

EntryNames ==
    {"distance", "habitability", "planet_type", "size", "mass", "gravity", "year_length",
     "star_type"}

InsufficientSentences ==
    {"Insufficient data to determine distance from Earth.",
     "Insufficient data to determine habitability.",
     "Insufficient data to determine the planet's size relative to Earth.",
     "Insufficient data to determine the planet's mass relative to Earth.",
     "Insufficient data to determine the planet's surface gravity.",
     "Insufficient data to determine how long a year is on this planet.",
     "Insufficient data to determine the type of star this planet orbits."}

\* the entry carries no value: its value field is null, or its label is the
\* explicit unknown label where the entry holds only a label
HoldsNoValue(name, entry) ==
    CASE name = "distance" -> entry.value = None
      [] name = "habitability" -> entry.habitable_zone_distance = None /\ entry.assessment = "Unknown"
      [] name = "planet_type" -> entry.type = "Unknown (insufficient data)"
      [] name = "size" -> entry.earth_radius_ratio = None
      [] name = "mass" -> entry.earth_mass_ratio = None
      [] name = "gravity" -> entry.earth_gravity_ratio = None
      [] name = "year_length" -> entry.orbital_period_days = None
      [] name = "star_type" -> entry.star_type = "Unknown"

HoldsValue(name, entry) ==
    CASE name = "distance" -> entry.value # None
      [] name = "habitability" -> entry.habitable_zone_distance # None /\ entry.assessment # "Unknown"
      [] name = "planet_type" -> entry.type # "Unknown (insufficient data)"
      [] name = "size" -> entry.earth_radius_ratio # None
      [] name = "mass" -> entry.earth_mass_ratio # None
      [] name = "gravity" -> entry.earth_gravity_ratio # None
      [] name = "year_length" -> entry.orbital_period_days # None
      [] name = "star_type" -> entry.star_type # "Unknown"

\* the sentence of the entry says that the data is insufficient
SaysInsufficient(entry) ==
    \/ entry.answer.text \in InsufficientSentences
    \/ /\ entry.answer.text = "This appears to be a {}."
       /\ entry.answer.args = <<"Unknown (insufficient data)">>

Source == IF ListInput THEN planet.items ELSE data.planet

\* the emitted record's habitability was computed
Computed(explanation) == "inner_habitable_boundary" \in DOMAIN explanation.habitability

\* the planet of the emitted record lies in the zone, inner <= d <= outer
InZone(explanation) ==
    LET h == explanation.habitability
    IN  /\ Val(h.inner_habitable_boundary) <= Val(h.actual_distance)
        /\ Val(h.actual_distance) <= Val(h.outer_habitable_boundary)

\* the mass resolved in the order pl_bmasse, pl_bmassj x 317.8, pl_msinie,
\* pl_msinij x 317.8
ResolvedMass(planet_data) ==
    IF Get(planet_data, "pl_bmasse") # None THEN Get(planet_data, "pl_bmasse")
    ELSE IF Get(planet_data, "pl_bmassj") # None
    THEN Some((Val(Get(planet_data, "pl_bmassj")) * 3178) \div 10)
    ELSE IF Get(planet_data, "pl_msinie") # None THEN Get(planet_data, "pl_msinie")
    ELSE IF Get(planet_data, "pl_msinij") # None
    THEN Some((Val(Get(planet_data, "pl_msinij")) * 3178) \div 10)
    ELSE None

\* the radius resolved in the order pl_rade, pl_radj x 11.2
ResolvedRadius(planet_data) ==
    IF Get(planet_data, "pl_rade") # None THEN Get(planet_data, "pl_rade")
    ELSE IF Get(planet_data, "pl_radj") # None
    THEN Some((Val(Get(planet_data, "pl_radj")) * 112) \div 10)
    ELSE None

\* the record with its resolved mass as its only mass field
MassResolved(planet_data) ==
    ("pl_bmasse" :> ResolvedMass(planet_data)) @@ ("pl_bmassj" :> None)
    @@ ("pl_msinie" :> None) @@ ("pl_msinij" :> None) @@ planet_data

\* C5: every derivation of an emitted record that consumes the mass uses the
\* mass resolved in the one priority order: the mass entry reports it, and
\* the planet type, the surface gravity and the habitability assessment are
\* those of the record that carries the resolved mass as its only mass field.
C5_OneMassPriority ==
    [][Emits =>
        LET only == MassResolved(Source)
            explanation == Emitted.layman_explanation
            gravity == calculate_surface_gravity(only, only)
            h == explanation.habitability
        IN  /\ explanation.mass.earth_mass_ratio = ResolvedMass(Source)
            /\ explanation.planet_type.type = get_planet_type(only, only)
            /\ ~IsRaise(gravity) /\ Truthy(gravity.value)
                   => explanation.gravity.earth_gravity_ratio = gravity.value
            /\ Computed(explanation)
                   => h.assessment = is_planet_habitable(Val(h.actual_distance),
                                                         Val(h.inner_habitable_boundary),
                                                         Val(h.outer_habitable_boundary),
                                                         only, only)]_vars

MassInWindow(planet_data) ==
    \/ ResolvedMass(planet_data) = None
    \/ 100 <= Val(ResolvedMass(planet_data)) /\ Val(ResolvedMass(planet_data)) <= 10000

RadiusInWindow(planet_data) ==
    \/ ResolvedRadius(planet_data) = None
    \/ 500 <= Val(ResolvedRadius(planet_data)) /\ Val(ResolvedRadius(planet_data)) <= 2000

\* C6: for an emitted record whose planet is inside the habitable zone, the
\* assessment is "Potentially habitable" exactly when the resolved mass is
\* absent or in [0.1, 10] and the resolved radius is absent or in [0.5, 2.0],
\* and is the in-zone-but-unsuitable assessment exactly otherwise.
C6_SuitabilityWindows ==
    [][Emits /\ Computed(Emitted.layman_explanation) /\ InZone(Emitted.layman_explanation) =>
        LET assessment == Emitted.layman_explanation.habitability.assessment
            suitable == MassInWindow(Source) /\ RadiusInWindow(Source)
        IN  /\ assessment = "Potentially habitable" <=> suitable
            /\ assessment = "In habitable zone but may not have right mass/size for habitability"
                   <=> ~suitable]_vars

\* stellar luminosity is present: given directly, or derivable from a present
\* stellar radius and temperature
LuminosityPresent(planet_data) ==
    \/ Get(planet_data, "st_lum") # None
    \/ Get(planet_data, "st_rad") # None /\ Get(planet_data, "st_teff") # None

\* C7: the assessment of an emitted record is "Unknown" exactly when the
\* stellar luminosity, the stellar temperature or the orbital distance is
\* absent; otherwise it is one of the three zone labels, and it is "Not in
\* habitable zone" exactly when the planet is not in the zone.
C7_UnknownIffAbsent ==
    [][Emits =>
        LET explanation == Emitted.layman_explanation
            assessment == explanation.habitability.assessment
            present == /\ LuminosityPresent(Source)
                       /\ Get(Source, "st_teff") # None
                       /\ Get(Source, "pl_orbsmax") # None
        IN  /\ assessment = "Unknown" <=> ~present
            /\ Computed(explanation)
                   => /\ assessment \in
                             {"Potentially habitable",
                              "In habitable zone but may not have right mass/size for habitability",
                              "Not in habitable zone"}
                      /\ assessment = "Not in habitable zone" <=> ~InZone(explanation)]_vars

\* the emitted records whose habitable zone was computed
ComputedRecords == { k \in 1..Len(results) : Computed(results[k].layman_explanation) }

Inner(k) == Val(results[k].layman_explanation.habitability.inner_habitable_boundary)

Outer(k) == Val(results[k].layman_explanation.habitability.outer_habitable_boundary)

StarTemperature(k) == Val(results[k].layman_explanation.star_type.star_temperature)

C9_HzdIffInZone ==
    \A k \in ComputedRecords :
        LET explanation == results[k].layman_explanation
        IN  FracBetween(Val(explanation.habitability.habitable_zone_distance), -1, 1)
                <=> InZone(explanation)

\* C10: the distance in light-years is the direct distance in parsecs x 3.26
\* whenever the direct distance is present, whatever the parallax, and
\* otherwise (1000 / parallax) x 3.26 for a parallax > 0; a parallax of 100
\* mas alone gives 32.6 light-years; a non-zero distance is the one reported.
C10_DistanceLightYears ==
    [][Emits =>
        LET parallax == Get(Source, "sy_plx")
            distance_parsecs == Get(Source, "sy_dist")
            distance_ly == calculate_earth_distance_light_years(parallax, distance_parsecs)
        IN  /\ distance_parsecs # None
                   => distance_ly = Some((Val(distance_parsecs) * 326) \div 100)
            /\ distance_parsecs = None /\ parallax # None /\ Val(parallax) > 0
                   => distance_ly = Some(((1000000000 \div Val(parallax)) * 326) \div 100)
            /\ distance_parsecs = None /\ parallax = Some(100000) => distance_ly = Some(32600)
            /\ Truthy(distance_ly) => Emitted.layman_explanation.distance.value = distance_ly]_vars

\* C10 witness: a record emitted with the distance taken from the direct
\* distance of 1.3 parsecs although a parallax of 100 mas is given
C10_Witness ==
    /\ pc = "done"
    /\ ListInput
    /\ Len(results) = 1
    /\ Get(data.items[1].items, "sy_dist") = Some(1300)
    /\ Get(data.items[1].items, "sy_plx") = Some(100000)
    /\ results[1].layman_explanation.distance.value = Some(4238)

\* C11: an emitted record without a direct distance whose parallax is absent,
\* zero or negative has a distance entry with a null value and the
\* "Insufficient data" sentence: no distance number is reported for it.
C11_NoDistanceWithoutPositiveParallax ==
    [][Emits =>
        LET parallax == Get(Source, "sy_plx")
            distance_parsecs == Get(Source, "sy_dist")
            entry == Emitted.layman_explanation.distance
        IN  distance_parsecs = None /\ (parallax = None \/ Val(parallax) <= 0)
                => /\ entry.value = None
                   /\ entry.answer.text = "Insufficient data to determine distance from Earth."]_vars

\* C12: in every emitted record whose gravity is present, the gravity ratio
\* is the record's own mass ratio divided by the square of its own radius
\* ratio.
C12_GravityFromOwnRatios ==
    \A k \in 1..Len(results) :
        LET explanation == results[k].layman_explanation
            mass == explanation.mass.earth_mass_ratio
            radius == explanation.size.earth_radius_ratio
        IN  explanation.gravity.earth_gravity_ratio # None
                => /\ mass # None
                   /\ radius # None
                   /\ explanation.gravity.earth_gravity_ratio
                          = Some(FDiv(Val(mass), FMul(Val(radius), Val(radius))))

\* C13: in every emitted record the gravity is reported exactly when the
\* record's mass ratio and radius ratio are both non-null.
C13_GravityIffBothResolved ==
    \A k \in 1..Len(results) :
        LET explanation == results[k].layman_explanation
        IN  explanation.gravity.earth_gravity_ratio # None
                <=> /\ explanation.mass.earth_mass_ratio # None
                    /\ explanation.size.earth_radius_ratio # None

\* the measured masses of the record, in Earth masses
MeasuredMasses(planet_data) ==
    LET earth == IF Get(planet_data, "pl_bmasse") # None
                 THEN { Get(planet_data, "pl_bmasse") } ELSE {}
        jupiter == IF Get(planet_data, "pl_bmassj") # None
                   THEN { Some((Val(Get(planet_data, "pl_bmassj")) * 3178) \div 10) } ELSE {}
    IN  earth \cup jupiter

\* the minimum mass of the record: the Earth minimum mass if present,
\* otherwise the Jupiter minimum mass x 317.8
MinimumMass(planet_data) ==
    IF Get(planet_data, "pl_msinie") # None THEN Get(planet_data, "pl_msinie")
    ELSE IF Get(planet_data, "pl_msinij") # None
    THEN Some((Val(Get(planet_data, "pl_msinij")) * 3178) \div 10)
    ELSE None

\* C14: the mass entry of an emitted record without a measured mass and with
\* a minimum-mass field reports the minimum mass (Earth field first, else the
\* Jupiter field x 317.8) and carries the radial-velocity note; with a
\* measured mass present it reports a measured mass and carries no note.
C14_MinimumMassNoted ==
    [][Emits =>
        LET entry == Emitted.layman_explanation.mass
            measured == MeasuredMasses(Source)
        IN  /\ measured = {} /\ MinimumMass(Source) # None
                => /\ entry.earth_mass_ratio = MinimumMass(Source)
                   /\ "note" \in DOMAIN entry
                   /\ entry.note = MinimumMassNote
            /\ measured # {}
                => /\ entry.earth_mass_ratio \in measured
                   /\ "note" \notin DOMAIN entry]_vars

\* the mass, in Earth masses, that get_planet_type classifies: the first
\* non-null of its four mass fields
TypeMass(planet_data) ==
    IF Get(planet_data, "pl_bmassj") # None
    THEN Some((Val(Get(planet_data, "pl_bmassj")) * 3178) \div 10)
    ELSE IF Get(planet_data, "pl_bmasse") # None THEN Get(planet_data, "pl_bmasse")
    ELSE IF Get(planet_data, "pl_msinij") # None
    THEN Some((Val(Get(planet_data, "pl_msinij")) * 3178) \div 10)
    ELSE Get(planet_data, "pl_msinie")

\* the radius, in Earth radii, that get_planet_type classifies
TypeRadius(planet_data) == ResolvedRadius(planet_data)

\* the table for a known mass m and a known radius r, first matching row
BothKnownTable(m, r) ==
    CASE m < 100 -> "Sub-Earth/Mercury-like"
      [] m >= 100 /\ m < 2000 /\ r < 1500 -> "Earth-like terrestrial planet"
      [] m >= 100 /\ ~(m < 2000 /\ r < 1500) /\ m < 10000 /\ r < 2500 -> "Super-Earth"
      [] m >= 100 /\ ~(m < 10000 /\ r < 2500) /\ m < 50000 /\ r < 6000 -> "Mini-Neptune/Gas Dwarf"
      [] m >= 100 /\ ~(m < 50000 /\ r < 6000) /\ m < 500000 -> "Neptune-like gas giant"
      [] m >= 500000 -> "Jupiter-like gas giant"

\* the table for a known mass m alone
MassOnlyTable(m) ==
    CASE m < 100 -> "Sub-Earth/Mercury-like"
      [] 100 <= m /\ m < 2000 -> "Possibly Earth-like"
      [] 2000 <= m /\ m < 10000 -> "Possibly Super-Earth"
      [] 10000 <= m /\ m < 50000 -> "Possibly Mini-Neptune"
      [] 50000 <= m /\ m < 500000 -> "Neptune-like gas giant"
      [] 500000 <= m -> "Jupiter-like gas giant"

\* the table for a known radius r alone
RadiusOnlyTable(r) ==
    CASE r < 800 -> "Sub-Earth/Mercury-like"
      [] 800 <= r /\ r < 1500 -> "Possibly Earth-like"
      [] 1500 <= r /\ r < 2500 -> "Possibly Super-Earth"
      [] 2500 <= r /\ r < 6000 -> "Possibly Mini-Neptune/Gas Dwarf"
      [] 6000 <= r /\ r < 15000 -> "Neptune-like gas giant"
      [] 15000 <= r -> "Jupiter-like gas giant"

\* C15: for every emitted record with both a mass m and a radius r, the planet
\* type is the first matching row of the both-known table: m < 0.1 Sub-Earth;
\* m < 2 and r < 1.5 Earth-like; m < 10 and r < 2.5 Super-Earth; m < 50 and
\* r < 6 Mini-Neptune; m < 500 Neptune-like; otherwise Jupiter-like; m = 1,
\* r = 1 gives Earth-like.
C15_BothKnownTable ==
    [][Emits /\ TypeMass(Source) # None /\ TypeRadius(Source) # None =>
        LET m == Val(TypeMass(Source))
            r == Val(TypeRadius(Source))
            type == Emitted.layman_explanation.planet_type.type
        IN  /\ type = BothKnownTable(m, r)
            /\ m = 1000 /\ r = 1000 => type = "Earth-like terrestrial planet"]_vars

\* C15 witness: mass 1 and radius 3 emitted as a Mini-Neptune, the first row
\* whose mass and radius tests both pass
C15_Witness ==
    \E k \in 1..Len(results) :
        /\ results[k].layman_explanation.mass.earth_mass_ratio = Some(1000)
        /\ results[k].layman_explanation.size.earth_radius_ratio = Some(3000)
        /\ results[k].layman_explanation.planet_type.type = "Mini-Neptune/Gas Dwarf"

\* some source field of the mass, of the radius, is not null
AnyMassField(planet_data) ==
    \E f \in {"pl_bmasse", "pl_bmassj", "pl_msinie", "pl_msinij"} : Get(planet_data, f) # None

AnyRadiusField(planet_data) ==
    \E f \in {"pl_rade", "pl_radj"} : Get(planet_data, f) # None

\* C16: the planet type of every emitted record comes from the both-known
\* table when mass and radius are both resolved, from the mass-only table when
\* only the mass is, from the radius-only table when only the radius is, and
\* is "Unknown (insufficient data)" exactly when no mass field and no radius
\* field of the record holds a value.
C16_TableByResolved ==
    [][Emits =>
        LET mass == AnyMassField(Source)
            radius == AnyRadiusField(Source)
            type == Emitted.layman_explanation.planet_type.type
        IN  /\ mass /\ radius => type = BothKnownTable(Val(TypeMass(Source)), Val(TypeRadius(Source)))
            /\ mass /\ ~radius => type = MassOnlyTable(Val(TypeMass(Source)))
            /\ ~mass /\ radius => type = RadiusOnlyTable(Val(TypeRadius(Source)))
            /\ type = "Unknown (insufficient data)" <=> ~mass /\ ~radius]_vars

\* C16 witness: a record with a mass alone, emitted with the label of the
\* mass-only table
C16_Witness ==
    /\ pc = "done"
    /\ ListInput
    /\ Len(results) = 1
    /\ Get(data.items[1].items, "pl_bmasse") = Some(1999)
    /\ Get(data.items[1].items, "pl_rade") = None
    /\ results[1].layman_explanation.planet_type.type = "Possibly Earth-like"

\* the labels that begin with "Possibly"
PossiblyLabels ==
    {"Possibly Earth-like", "Possibly Super-Earth", "Possibly Mini-Neptune",
     "Possibly Mini-Neptune/Gas Dwarf"}

\* exactly one of mass and radius is resolved
SingleVariable(planet_data) == AnyMassField(planet_data) # AnyRadiusField(planet_data)

\* C17 as claimed: every planet type given by a single-variable table begins
\* with "Possibly".
C17_SingleVariablePossibly ==
    [][Emits /\ SingleVariable(Source) =>
        Emitted.layman_explanation.planet_type.type \in PossiblyLabels]_vars

\* C17 as amended: a planet type given by a single-variable table begins with
\* "Possibly" exactly in the three middle rows (mass in [0.1, 50), radius in
\* [0.8, 6)); the Sub-Earth, Neptune-like and Jupiter-like rows carry the
\* label of the both-known table.
C17_PossiblyInMiddleRows ==
    [][Emits /\ SingleVariable(Source) =>
        LET type == Emitted.layman_explanation.planet_type.type
            middle == IF AnyMassField(Source)
                      THEN 100 <= Val(TypeMass(Source)) /\ Val(TypeMass(Source)) < 50000
                      ELSE 800 <= Val(TypeRadius(Source)) /\ Val(TypeRadius(Source)) < 6000
        IN  /\ type \in PossiblyLabels <=> middle
            /\ ~middle => type \in {"Sub-Earth/Mercury-like", "Neptune-like gas giant",
                                    "Jupiter-like gas giant"}]_vars

\* C17 witness: a record with a mass of 49.999 and no radius, emitted from
\* the last middle row of the mass-only table
C17_Witness ==
    /\ pc = "done"
    /\ ListInput
    /\ Len(results) = 1
    /\ Get(data.items[1].items, "pl_bmasse") = Some(49999)
    /\ Get(data.items[1].items, "pl_rade") = None
    /\ results[1].layman_explanation.planet_type.type = "Possibly Mini-Neptune"

\* the spectral type of the record names a class: it is a string with a
\* first token
HasClassLetter(planet_data) ==
    /\ Get(planet_data, "st_spectype") # None
    /\ LStrip(Val(Get(planet_data, "st_spectype"))) # <<>>

\* the class letter: the first character of the first token
ClassLetter(planet_data) == Head(LStrip(Val(Get(planet_data, "st_spectype"))))

IsRoman(c) == c \in {"I", "V"}

\* the luminosity class: the Roman numeral of the spectral type, empty when
\* none is given
LuminosityClass(planet_data) == SelectSeq(Val(Get(planet_data, "st_spectype")), IsRoman)

GiantClasses == { <<"I">>, <<"I", "I">>, <<"I", "I", "I">> }

GiantLabel(letter) ==
    CASE letter = "G" -> "G-type giant star"
      [] letter = "K" -> "K-type giant star"
      [] letter = "M" -> "M-type giant star"

DwarfLabel(letter) ==
    CASE letter = "G" -> "G-type star (similar to our Sun)"
      [] letter = "K" -> "K-type orange dwarf star"
      [] letter = "M" -> "M-type red dwarf star"

\* C18: for an emitted record whose spectral type has the class letter G, K
\* or M, the star type is the giant label when the luminosity class is I, II
\* or III, and the dwarf / main-sequence label when it is any other class or
\* is not given.
C18_GiantIffClassIToIII ==
    [][Emits /\ HasClassLetter(Source) /\ ClassLetter(Source) \in {"G", "K", "M"} =>
        LET label == Emitted.layman_explanation.star_type.star_type
        IN  IF LuminosityClass(Source) \in GiantClasses
            THEN label = GiantLabel(ClassLetter(Source))
            ELSE label = DwarfLabel(ClassLetter(Source))]_vars

\* the temperature ladder, T in kelvins
Ladder(T) ==
    CASE T > 30000 -> "extremely hot O-type star"
      [] T <= 30000 /\ T > 10000 -> "very hot B-type star"
      [] T <= 10000 /\ T > 7500 -> "hot A-type star"
      [] T <= 7500 /\ T > 6000 -> "F-type star (hotter than our Sun)"
      [] T <= 6000 /\ T > 5200 -> "G-type star (similar to our Sun)"
      [] T <= 5200 /\ T > 3700 -> "K-type orange dwarf star"
      [] T <= 3700 /\ T > 2400 -> "M-type red dwarf star"
      [] T <= 2400 -> "very cool brown dwarf"

\* the labels of a class letter
LabelsOfLetter(letter) ==
    CASE letter = "O" -> {"extremely hot O-type star"}
      [] letter = "B" -> {"very hot B-type star"}
      [] letter = "A" -> {"hot A-type star"}
      [] letter = "F" -> {"F-type star (hotter than our Sun)"}
      [] letter \in {"G", "K", "M"} -> {GiantLabel(letter), DwarfLabel(letter)}
      [] letter \in {"L", "T", "Y"} -> {"very cool brown dwarf"}
      [] OTHER -> {"unknown type star"}

\* C19: the star type of an emitted record whose spectral type is absent and
\* whose stellar temperature T is present is the label of the ladder for T;
\* the star type of a record whose spectral type names a class is a label of
\* its class letter, whatever T.
C19_LadderIffNoSpectype ==
    [][Emits =>
        LET star_temp == Get(Source, "st_teff")
            label == Emitted.layman_explanation.star_type.star_type
        IN  /\ Get(Source, "st_spectype") = None /\ star_temp # None
                => label = Ladder(Val(star_temp))
            /\ HasClassLetter(Source) => label \in LabelsOfLetter(ClassLetter(Source))]_vars

\* the record of the scenario: 5700 K, one solar radius, no luminosity field
DerivesLuminosity(planet_data) ==
    /\ Get(planet_data, "st_lum") = None
    /\ Get(planet_data, "st_rad") = Some(1000)
    /\ Get(planet_data, "st_teff") = Some(5700)

\* C20 as claimed: for a record with 5700 K, one solar radius and no
\* luminosity field the derived luminosity is 1 and the bounds of the
\* habitable zone are 0.72 AU and 1.77 AU.
C20_DerivedLuminosityOne ==
    [][Emits /\ DerivesLuminosity(Source) =>
        LET h == Emitted.layman_explanation.habitability
        IN  /\ StarLuminosity(Source) = Some(1000)
            /\ Computed(Emitted.layman_explanation)
                   => /\ h.inner_habitable_boundary = Some(720)
                      /\ h.outer_habitable_boundary = Some(1770)]_vars

\* C20 as amended: for that record the derived luminosity is (5700 / 5778)^4,
\* 0.947, and the bounds are 0.70 AU and 1.72 AU, each within 0.01; the bounds
\* are 0.72 AU and 1.77 AU when the luminosity field itself is 1 at 5700 K.
C20_DerivedLuminosityBelowOne ==
    [][Emits =>
        LET h == Emitted.layman_explanation.habitability
            computed == Computed(Emitted.layman_explanation)
        IN  /\ DerivesLuminosity(Source)
                => /\ StarLuminosity(Source) # None
                   /\ Val(StarLuminosity(Source)) \in 937..957
                   /\ computed => /\ Val(h.inner_habitable_boundary) \in 691..711
                                  /\ Val(h.outer_habitable_boundary) \in 1712..1732
            /\ Get(Source, "st_lum") = Some(1000) /\ Get(Source, "st_teff") = Some(5700) /\ computed
                => /\ h.inner_habitable_boundary = Some(720)
                   /\ h.outer_habitable_boundary = Some(1770)]_vars

\* C20 witness: the record of the scenario at 1 AU, emitted with bounds
\* computed from the derived luminosity
C20_Witness ==
    /\ pc = "done"
    /\ ListInput
    /\ Len(results) = 1
    /\ DerivesLuminosity(data.items[1].items)
    /\ Get(data.items[1].items, "pl_orbsmax") = Some(1000)
    /\ Computed(results[1].layman_explanation)
    /\ Inner(1) < 720
    /\ Outer(1) < 1770

\* C21: a document that is neither a list nor a mapping is reported as one
\* failure for the whole batch: process_exoplanet_data does not raise, emits
\* no record, and prints its one diagnostic.
C21_NonSequenceReported ==
    data.type \notin {"list", "dict"} =>
        /\ pc # "raised"
        /\ results = <<>>
        /\ pc # "start" => Len(printed) = 1

\* the number of diagnostics printed with the template
Count(text) == Cardinality({ k \in 1..Len(printed) : printed[k].text = text })

\* what the transformation gives for the j-th element of the batch; an
\* element that is no mapping has no get
Transformed(j) ==
    IF data.items[j].type = "dict" THEN analyze_exoplanet(data.items[j].items)
    ELSE Raise("AttributeError")

RECURSIVE IsSubsequence(_, _)
IsSubsequence(a, b) ==
    IF a = <<>> THEN TRUE
    ELSE IF b = <<>> THEN FALSE
    ELSE IF Head(a) = Head(b) THEN IsSubsequence(Tail(a), Tail(b))
    ELSE IsSubsequence(a, Tail(b))

\* the run over the batch has ended
BatchEnded == ListInput /\ TruthyData(data) /\ pc \in {"done", "raised"}

\* C22: when the run over a batch ends, every input record has ended in
\* exactly one of the three outcomes: emitted + duplicates + failures is the
\* number of input records, and the output is the subsequence of the emitted
\* records in arrival order.
C22_EveryRecordOneOutcome ==
    BatchEnded =>
        /\ Count("Processed planet: {}") + Count("Skipping duplicate planet: {}")
               + Count("Error processing planet {}: {}") = Len(data.items)
        /\ Count("Processed planet: {}") = Len(results)
        /\ IsSubsequence(results, [j \in 1..Len(data.items) |-> Transformed(j)])

\* the j-th element is the first record of the batch that carries its name
FirstOfName(j) ==
    /\ j \in Mappings
    /\ \A h \in Mappings : h < j => NameAt(h) # NameAt(j)

\* every record transformed on its own, then the first record of each name
\* kept, in arrival order; a record that failed gives no output
RECURSIVE ParallelThenDedup(_)
ParallelThenDedup(j) ==
    IF j > Len(data.items) THEN <<>>
    ELSE (IF FirstOfName(j) /\ ~IsRaise(Transformed(j)) THEN <<Transformed(j)>> ELSE <<>>)
         \o ParallelThenDedup(j + 1)

\* C23: when the run over a batch ends, the output written by the sequential
\* loop is the output of transforming every record independently and then
\* keeping the first occurrence of each name in arrival order.
C23_ParallelThenDedupSame ==
    BatchEnded => written = Some(ParallelThenDedup(1))

\* C24: a source field present with the value 0 is reported as the value 0 in
\* its entry of an emitted record, never as insufficient data.
C24_ZeroIsPresent ==
    [][Emits =>
        LET explanation == Emitted.layman_explanation
        IN  /\ Get(Source, "sy_dist") = Some(0) => explanation.distance.value = Some(0)
            /\ Get(Source, "pl_bmasse") = Some(0) => explanation.mass.earth_mass_ratio = Some(0)
            /\ Get(Source, "pl_rade") = Some(0) => explanation.size.earth_radius_ratio = Some(0)]_vars

\* C25: the star-type step never raises on a spectral type that is null or a
\* string: no record is reported as failed with the IndexError of
\* get_star_type_from_spectype.
C25_SpectypeNeverRaises ==
    \A k \in 1..Len(printed) :
        printed[k].text = "Error processing planet {}: {}" => printed[k].args[2] # "IndexError"

\* the two assessments of a planet inside the habitable zone
InZoneAssessments ==
    {"Potentially habitable", "In habitable zone but may not have right mass/size for habitability"}

InZoneRow(row) == row.assessment \in InZoneAssessments

\* C26: get_planets_in_habitable_zone returns exactly the stored planets whose
\* assessment is one of the two in-zone assessments, and none whose assessment
\* is "Not in habitable zone" or "Unknown".
C26_SelectsInZonePlanets ==
    pc = "done" => get_planets_in_habitable_zone = SelectSeq(exo_planets, InZoneRow)

\* C27: in every emitted record whose habitability was computed, the sentence
\* says "within the habitable zone" exactly when the assessment is one of the
\* two in-zone assessments, and "too close" or "too far" exactly when the
\* assessment is "Not in habitable zone".
C27_PositionAgreesWithAssessment ==
    \A k \in ComputedRecords :
        LET h == results[k].layman_explanation.habitability
            position == h.answer.args[1]
        IN  /\ position = "within the habitable zone" <=> h.assessment \in InZoneAssessments
            /\ position \in {"too close to its star (too hot)", "too far from its star (too cold)"}
                   <=> h.assessment = "Not in habitable zone"

\* a step of the loop that prints the sentence text
Prints(text) ==
    /\ pc = "loop"
    /\ Len(printed') = Len(printed) + 1
    /\ printed'[Len(printed')].text = text

\* the indices before j of the mappings that carry the name of element j
EarlierOfName(j) == { h \in Mappings : h < j /\ NameAt(h) = NameAt(j) }

\* C28: when analyze_exoplanet raises for a record inside the loop, nothing is
\* appended to results and the name of the record is not added to
\* processed_planets; a record is therefore skipped as a duplicate only after a
\* record of its name succeeded, and a record whose earlier namesakes all
\* failed is processed and emitted if it succeeds.
C28_FailureLeavesLoopState ==
    [][/\ Prints("Error processing planet {}: {}")
           => /\ results' = results
              /\ processed_planets' = processed_planets
              /\ NameAt(i) \notin processed_planets'
       /\ Prints("Skipping duplicate planet: {}")
           => \E h \in EarlierOfName(i) : ~IsRaise(Transformed(h))
       /\ ( /\ pc = "loop" /\ i' = i + 1 /\ i \in Mappings
            /\ EarlierOfName(i) # {}
            /\ \A h \in EarlierOfName(i) : IsRaise(Transformed(h))
            /\ ~IsRaise(Transformed(i)) )
           => Emits /\ Emitted = Transformed(i)]_vars

\* a record failed, and the next record, of the same name, was emitted
C28_Witness ==
    /\ pc = "done"
    /\ ListInput
    /\ Len(data.items) = 2
    /\ NameAt(1) = NameAt(2)
    /\ Len(printed) >= 2
    /\ printed[1].text = "Error processing planet {}: {}"
    /\ printed[2].text = "Processed planet: {}"
    /\ results = <<Transformed(2)>>

\* the mappings of the batch without a pl_name, the key missing or null
Nameless == { j \in Mappings : NameAt(j) = None }

\* the records of the nameless that were processed
NamelessProcessed ==
    { k \in 1..Len(printed) : printed[k] = Sentence("Processed planet: {}", <<None>>) }

\* C29: the records without a pl_name share the identity None of the dedup set:
\* once one of them has been emitted every later one is skipped as a duplicate,
\* and at most one of them appears in the output.
C29_OneNamelessRecord ==
    [][ListInput =>
         /\ ( /\ pc = "loop" /\ i' = i + 1 /\ i \in Nameless
              /\ \E h \in Nameless : h < i /\ ~IsRaise(Transformed(h)) )
             => /\ results' = results
                /\ printed' = Append(printed, Sentence("Skipping duplicate planet: {}", <<None>>))
         /\ Cardinality(NamelessProcessed') <= 1
         /\ Cardinality({ k \in 1..Len(results') : results'[k].planet_name = None }) <= 1]_vars

\* a record of a null name was emitted and a record without the key was skipped
C29_Witness ==
    /\ pc = "done"
    /\ ListInput
    /\ Len(data.items) = 2
    /\ Nameless = {1, 2}
    /\ "pl_name" \in DOMAIN data.items[1].items
    /\ "pl_name" \notin DOMAIN data.items[2].items
    /\ Len(results) = 1
    /\ Len(printed) >= 2
    /\ printed[2] = Sentence("Skipping duplicate planet: {}", <<None>>)

\* C30: for list input, after every iteration the number of emitted records is
\* the size of the dedup set, the names of the emitted records are pairwise
\* distinct, and the reported count of unique planets is the number of records
\* written.
C30_EmittedNamesDistinct ==
    ListInput =>
        /\ Len(results) = Cardinality(processed_planets)
        /\ \A k, m \in 1..Len(results) :
               k # m => results[k].planet_name # results[m].planet_name
        /\ pc = "done" =>
               /\ printed[Len(printed)].text = "Processed {} unique planets"
               /\ printed[Len(printed)].args = <<Len(Val(written))>>

============================================================================
